---- MODULE Spec2Model ----
(***************************************************************************)
(* Dotcom-bubble portfolio simulator: the useStockMarketSimulation hook    *)
(* (market / stock tick functions, crash schedule, run/pause timer, reset) *)
(* and the App component's portfolio operations (buyStock / sellStock).    *)
(*                                                                         *)
(* Number representation (JavaScript doubles are modelled in fixed point,  *)
(* products are rounded down to the unit):                                 *)
(*   market index       tenths of a point      1000     -> 10000           *)
(*   prices, cash       cents                  $50      -> 5000            *)
(*   Math.random()      hundredths             [0, 1)   -> 0..99           *)
(*   relative changes   1/10000                +3%      -> 300             *)
(*   crashProbability   hundredths             0.3      -> 30              *)
(*   crashSeverity      thousandths            0.5      -> 500             *)
(*   volatilityFactor   tenths                 1.0      -> 10              *)
(* MarketState.sentiment is written by the tick but read by no code path   *)
(* and is left out of the state.                                           *)
(***************************************************************************)
EXTENDS Integers, Sequences, FiniteSets, TLC

VARIABLES
    settings,      \* App: useState settings, the hook's `settings` argument
    market,        \* hook: MarketState
    stocks,        \* hook: Stock[] (price and priceHistory per stock id)
    isRunning,     \* hook: running flag
    gameOver,      \* hook: game-over flag
    simulationSpeed, \* hook: ms between timer ticks
    crashEvents,   \* hook: crash schedule {warningDate, crashDate, peakIndex}
    intervals,     \* live setInterval timers, each with the closure it captured
    effectInterval,\* id of the interval owned by the timer effect's cleanup (0: none)
    portfolio,     \* App: stock id -> share count (absent = not in domain)
    cash,          \* App: cash
    view,          \* App: cash / portfolio as captured by the rendered buyStock / sellStock
    lastOp,        \* the operation issued last
    left,          \* how many more operations the run may issue
    savedGames,    \* backend: the saved_games table (rows and the id generator)
    saves,         \* save service: the saveGameProgress calls in flight, per session
    returned       \* the value the last completed service call returned

vars == <<settings, market, stocks, isRunning, gameOver, simulationSpeed, crashEvents,
          intervals, effectInterval, portfolio, cash, view, lastOp, left,
          savedGames, saves, returned>>

serviceVars == <<savedGames, saves, returned>>

(***************************************************************************)
(* Bounds of the model.                                                    *)
(***************************************************************************)
MaxSteps == 4
MaxTradeSteps == 3
MaxPanelSteps == 3
MaxScheduleSteps == 1

(***************************************************************************)
(* Program constants.                                                      *)
(***************************************************************************)
InitialIndex == 10000
IndexFloor == 1000
PriceFloor == 10
InitialCash == 1000000
InitialSpeed == 3000
WarningProbability == 30
CrashProbabilityStep == 10
CrashProbabilityCap == 95
InitialSeverity == 500
AppTimeScale == 7

Min(a, b) == IF a <= b THEN a ELSE b
Max(a, b) == IF a >= b THEN a ELSE b

(***************************************************************************)
(* Dates.  A date string "YYYY-MM-DD" is modelled by its day number (days  *)
(* since 1990-01-01): zero-padded ISO dates compare as strings exactly as  *)
(* their day numbers compare as integers.                                  *)
(***************************************************************************)
IsLeap(y) == (y % 4 = 0 /\ y % 100 # 0) \/ y % 400 = 0

\* leap years before year y
LeapsBefore(y) == (y - 1) \div 4 - (y - 1) \div 100 + (y - 1) \div 400

DaysBeforeYear(y) == 365 * (y - 1990) + LeapsBefore(y) - LeapsBefore(1990)

\* days of year y before month m (m = 13: the whole year)
DaysBeforeMonth(y, m) ==
    <<0, 31, 59, 90, 120, 151, 181, 212, 243, 273, 304, 334, 365>>[m]
        + (IF m > 2 /\ IsLeap(y) THEN 1 ELSE 0)

\* `${year}-${month}-${day}` with two-digit month and day
formatDate(year, month, day) == DaysBeforeYear(year) + DaysBeforeMonth(year, month) + (day - 1)

\* parseInt(date.split('-')[0])
YearOf(date) ==
    LET y == 1990 + date \div 366
    IN  IF DaysBeforeYear(y + 1) <= date THEN y + 1 ELSE y

\* parseInt(date.split('-')[1])
MonthOf(date) ==
    LET y == YearOf(date)
        r == date - DaysBeforeYear(y)
    IN  CHOOSE m \in 1..12 : DaysBeforeMonth(y, m) <= r /\ r < DaysBeforeMonth(y, m + 1)

\* new Date(dateString) + days, as an ISO date (host clock without daylight-saving shifts)
addDays(date, days) == date + days

(***************************************************************************)
(* Random source: every Math.random() result is a number of hundredths.    *)
(***************************************************************************)

\* Math.random() * (max - min) + min, min and max in any common unit
getRandomFloat(u, min, max) == min + (u * (max - min)) \div 100

\* Math.floor(Math.random() * n)
RandomInt(u, n) == (u * n) \div 100

(***************************************************************************)
(* The company list handed to the hook (initialStocks).                    *)
(***************************************************************************)
StockIds == {"a", "b"}

InitialStocks ==
    [a |-> [category |-> "E-commerce", initialPrice |-> 5000, peakPrice |-> 6400,
            volatility |-> "extreme", survivalChance |-> "very low"],
     b |-> [category |-> "Software", initialPrice |-> 11, peakPrice |-> 10,
            volatility |-> "extreme", survivalChance |-> "very low"]]

getVolatilityFactor(volatility) ==
    CASE volatility = "low" -> 5
      [] volatility = "medium" -> 10
      [] volatility = "high" -> 20
      [] volatility = "extreme" -> 35
      [] OTHER -> 10

\* hundredths
getSurvivalFactor(survivalChance) ==
    CASE survivalChance = "very low" -> 20
      [] survivalChance = "low" -> 40
      [] survivalChance = "medium" -> 60
      [] survivalChance = "high" -> 80
      [] survivalChance = "very high" -> 95
      [] OTHER -> 50

(***************************************************************************)
(* Crash schedule.  tape = the Math.random() results, in call order:       *)
(* a (randomness test, or the month under a fixed crash year), b (year),   *)
(* c (month), w (months of warning).                                       *)
(***************************************************************************)
\* the warning month wraps into the previous year without the year being decremented
determineCrashTimingSameYear(s, tape) ==
    LET fixed == s.crashYear # 0
        randomised == ~fixed /\ tape.a < s.crashRandomness
        crashYear == IF fixed THEN s.crashYear
                     ELSE IF randomised THEN RandomInt(tape.b, 3) + 2002
                     ELSE 2000
        crashMonth == IF fixed THEN (IF crashYear = 2000 THEN 3 ELSE RandomInt(tape.a, 12) + 1)
                      ELSE IF randomised THEN RandomInt(tape.c, 12) + 1
                      ELSE 3
        warningMonthsAhead == RandomInt(tape.w, 3) + 1
        wrap == crashMonth - warningMonthsAhead <= 0
        warningMonth == IF wrap THEN crashMonth - warningMonthsAhead + 12
                        ELSE crashMonth - warningMonthsAhead
    IN  [warningDate |-> formatDate(crashYear, warningMonth, 15),
         crashDate |-> formatDate(crashYear, crashMonth, 15),
         peakIndex |-> 0]

determineCrashTiming(s, tape) ==
    LET fixed == s.crashYear # 0
        randomised == ~fixed /\ tape.a < s.crashRandomness
        crashYear == IF fixed THEN s.crashYear
                     ELSE IF randomised THEN RandomInt(tape.b, 3) + 2002
                     ELSE 2000
        crashMonth == IF fixed THEN (IF crashYear = 2000 THEN 3 ELSE RandomInt(tape.a, 12) + 1)
                      ELSE IF randomised THEN RandomInt(tape.c, 12) + 1
                      ELSE 3
        warningMonthsAhead == RandomInt(tape.w, 3) + 1
        wrap == crashMonth - warningMonthsAhead <= 0
        warningYear == IF wrap THEN crashYear - 1 ELSE crashYear
        warningMonth == IF wrap THEN crashMonth - warningMonthsAhead + 12
                        ELSE crashMonth - warningMonthsAhead
    IN  [warningDate |-> formatDate(warningYear, warningMonth, 15),
         crashDate |-> formatDate(crashYear, crashMonth, 15),
         peakIndex |-> 0]

(***************************************************************************)
(* Market tick (the setMarket updater of advanceSimulation and             *)
(* advanceToNextDay).  prev is the state React hands to the updater, cl    *)
(* the closure of the render the function belongs to.                      *)
(***************************************************************************)
\* the ladder starting over from early when no branch applies
StageLadderFromEarly(stage, newDate, crashDate) ==
    LET currentYear == YearOf(newDate)
        currentMonth == MonthOf(newDate)
    IN  IF currentYear < 1999 THEN "early"
        ELSE IF currentYear = 1999 /\ currentMonth < 6 THEN "growth"
        ELSE IF currentYear = 1999 /\ currentMonth >= 6 THEN "mania"
        ELSE IF currentYear = 2000 /\ currentMonth < 3 THEN "peak"
        ELSE IF newDate < crashDate THEN "decline"
        ELSE "early"

\* the ladder stepping on the year alone
StageLadderByYear(stage, newDate, crashDate) ==
    LET currentYear == YearOf(newDate)
    IN  IF currentYear < 1999 THEN "early"
        ELSE IF currentYear = 1999 THEN "growth"
        ELSE IF currentYear = 2000 THEN "peak"
        ELSE IF newDate < crashDate THEN "decline"
        ELSE stage

\* the calendar ladder; the stage is kept when no branch applies
StageLadder(stage, newDate, crashDate) ==
    LET currentYear == YearOf(newDate)
        currentMonth == MonthOf(newDate)
    IN  IF currentYear < 1999 THEN "early"
        ELSE IF currentYear = 1999 /\ currentMonth < 6 THEN "growth"
        ELSE IF currentYear = 1999 /\ currentMonth >= 6 THEN "mania"
        ELSE IF currentYear = 2000 /\ currentMonth < 3 THEN "peak"
        ELSE IF newDate < crashDate THEN "decline"
        ELSE stage

\* whether a branch of the ladder assigns the stage (and its volatility)
LadderAssigns(newDate, crashDate) ==
    \/ YearOf(newDate) <= 1999
    \/ YearOf(newDate) = 2000 /\ MonthOf(newDate) < 3
    \/ newDate < crashDate

StageVolatility(stage) ==
    CASE stage = "early" -> 20
      [] stage = "growth" -> 30
      [] stage = "mania" -> 50
      [] stage = "peak" -> 70
      [] stage = "decline" -> 80
      [] stage = "crash" -> 100

\* the draw of the stage's interval without the volatility multiplier
IndexChangeUnscaled(stage, severity, u, volatilityFactor) ==
    (CASE stage = "early" -> getRandomFloat(u, -10, 30)
       [] stage = "growth" -> getRandomFloat(u, -10, 50)
       [] stage = "mania" -> getRandomFloat(u, -20, 80)
       [] stage = "peak" -> getRandomFloat(u, -50, 50)
       [] stage = "decline" -> getRandomFloat(u, -80, 20)
       [] stage = "crash" -> getRandomFloat(u, 0 - ((150 * severity) \div 1000), 10))
    * 10

\* getRandomFloat(lo, hi) * settings.volatilityFactor, in 1/10000
IndexChange(stage, severity, u, volatilityFactor) ==
    (CASE stage = "early" -> getRandomFloat(u, -10, 30)
       [] stage = "growth" -> getRandomFloat(u, -10, 50)
       [] stage = "mania" -> getRandomFloat(u, -20, 80)
       [] stage = "peak" -> getRandomFloat(u, -50, 50)
       [] stage = "decline" -> getRandomFloat(u, -80, 20)
       [] stage = "crash" -> getRandomFloat(u, 0 - ((150 * severity) \div 1000), 10))
    * volatilityFactor

\* index * (1 + indexChange), no floor
NewIndexUnfloored(index, change) == (index * (10000 + change)) \div 10000

\* Math.max(100, index * (1 + indexChange))
NewIndex(index, change) == Max(IndexFloor, (index * (10000 + change)) \div 10000)

\* newMarketIndex < prevMarket.marketIndex * 0.7, compared before the index is
\* rounded to tenths (both sides scaled by 10000)
DropsBelow70(index, change) ==
    Max(IndexFloor * 10000, index * (10000 + change)) < index * 7000

\* Math.min(0.5 + (daysPastCrashDate / 30) * 0.5, 1.0)
Severity(newDate, crashDate) ==
    Min(InitialSeverity + ((newDate - crashDate) * 500) \div 30, 1000)

\* newCrashProbability + 0.1 with no cap
RaisedProbabilityUncapped(probability) == probability + CrashProbabilityStep

\* Math.min(newCrashProbability + 0.1, 0.95)
RaisedProbability(probability) ==
    Min(probability + CrashProbabilityStep, CrashProbabilityCap)

\* the warning fires on every tick at or past the warning date
WarningDueUnflagged(prev, newDate, warningDate) == newDate >= warningDate

\* crashEvents.warningDate && newDate >= crashEvents.warningDate && !newCrashWarningShown
WarningDue(prev, newDate, warningDate) ==
    newDate >= warningDate /\ ~prev.crashWarningShown

\* the calendar ladder runs whenever the crash roll fails, also in the crash stage
NextStageLaddered(stage, crashRoll, newDate, crashDate) ==
    IF crashRoll THEN "crash" ELSE StageLadder(stage, newDate, crashDate)

\* if (roll) stage = 'crash' else if (stage !== 'crash') the calendar ladder
NextStage(stage, crashRoll, newDate, crashDate) ==
    IF crashRoll THEN "crash"
    ELSE IF stage # "crash" THEN StageLadder(stage, newDate, crashDate)
    ELSE stage

\* tape: roll (crash roll), idx (index draw), over (game-over roll)
MarketTick(prev, cl, days, tape) ==
    LET newDate == addDays(prev.currentDate, days)
        warn == WarningDue(prev, newDate, cl.crashEvents.warningDate)
        probAfterWarning == IF warn THEN WarningProbability ELSE prev.crashProbability
        newsAfterWarning == IF warn THEN <<[kind |-> "warning", date |-> newDate]>> \o prev.news
                            ELSE prev.news
        past == newDate >= cl.crashEvents.crashDate
        newCrashProbability ==
            IF past THEN RaisedProbability(probAfterWarning)
            ELSE probAfterWarning
        newCrashSeverity == IF past THEN Severity(newDate, cl.crashEvents.crashDate)
                            ELSE prev.crashSeverity
        crashRoll == newCrashProbability > 0 /\ tape.roll * 10 < newCrashProbability
        newBubbleStage ==
            NextStage(prev.bubbleStage, crashRoll, newDate, cl.crashEvents.crashDate)
        \* the volatility is assigned together with the stage
        assigned == \/ crashRoll
                    \/ /\ prev.bubbleStage # "crash"
                       /\ LadderAssigns(newDate, cl.crashEvents.crashDate)
        newVolatility == IF assigned THEN StageVolatility(newBubbleStage)
                         ELSE prev.volatility
        indexChange == IndexChange(newBubbleStage, newCrashSeverity, tape.idx,
                                   cl.settings.volatilityFactor)
        newMarketIndex == NewIndex(prev.marketIndex, indexChange)
    IN  [market |->
            [currentDate |-> newDate,
             marketIndex |-> newMarketIndex,
             marketIndexHistory |->
                 Append(prev.marketIndexHistory, [date |-> newDate, price |-> newMarketIndex]),
             bubbleStage |-> newBubbleStage,
             volatility |-> newVolatility,
             news |-> IF crashRoll
                      THEN <<[kind |-> "crash", date |-> newDate]>> \o newsAfterWarning
                      ELSE newsAfterWarning,
             crashWarningShown |-> prev.crashWarningShown \/ warn,
             crashProbability |-> newCrashProbability,
             crashSeverity |-> newCrashSeverity],
         \* setCrashEvents(prev => ({...prev, peakIndex: prevMarket.marketIndex}))
         recordPeak |-> crashRoll /\ cl.crashEvents.peakIndex = 0,
         \* setGameOver(true)
         over |-> /\ newBubbleStage = "crash"
                  /\ DropsBelow70(prev.marketIndex, indexChange)
                  /\ YearOf(newDate) >= 2002
                  /\ tape.over > 95]

(***************************************************************************)
(* Stock tick (the setStocks updater).  `market` and `settings` are those  *)
(* of the closure, the stock is the one React hands to the updater.        *)
(* tape: base, mkt, bonus, impact, bank, clamp.                            *)
(***************************************************************************)
StockChange(info, price, cl, tape) ==
    LET m == cl.market
        marketInfluence == IF m.bubbleStage = "crash" THEN 7 ELSE 4
        own == (getRandomFloat(tape.base, -50, 50) * getVolatilityFactor(info.volatility)
                    * cl.settings.volatilityFactor) \div 10
        ratio == ((m.marketIndex - m.marketIndexHistory[1].price) * 10000)
                    \div m.marketIndexHistory[1].price
        marketPart == (ratio * marketInfluence * getRandomFloat(tape.mkt, 50, 150)) \div 1000
        bonus == IF m.bubbleStage = "mania" /\ info.category = "E-commerce"
                 THEN getRandomFloat(tape.bonus, 0, 500) ELSE 0
        crashImpact ==
            IF m.bubbleStage = "crash"
            THEN ((100 - getSurvivalFactor(info.survivalChance))
                     * getRandomFloat(tape.impact, 10, 100) * m.crashSeverity) \div 10000
            ELSE 0
        bankrupt == /\ m.bubbleStage = "crash"
                    /\ info.survivalChance = "very low"
                    /\ tape.bank * 1000 < 5 * m.crashSeverity
    IN  IF bankrupt THEN -5000 ELSE own + marketPart + bonus - crashImpact

\* the floor is skipped, the clamp kept
NewPriceUnfloored(info, price, cl, tape) ==
    LET raw == (price * (10000 + StockChange(info, price, cl, tape))) \div 10000
    IN  IF cl.market.bubbleStage # "crash" /\ raw * 10 > info.peakPrice * 15
        THEN (info.peakPrice * (1000 + getRandomFloat(tape.clamp, 0, 500))) \div 1000
        ELSE raw

\* newPrice = stock.price * (1 + baseChange); floor at 0.1; clamp outside the crash
NewPrice(info, price, cl, tape) ==
    LET raw == (price * (10000 + StockChange(info, price, cl, tape))) \div 10000
        floored == Max(PriceFloor, raw)
    IN  IF cl.market.bubbleStage # "crash" /\ floored * 10 > info.peakPrice * 15
        THEN (info.peakPrice * (1000 + getRandomFloat(tape.clamp, 0, 500))) \div 1000
        ELSE floored

StockTick(id, prevStock, cl, tape) ==
    LET newPrice == NewPrice(InitialStocks[id], prevStock.price, cl, tape)
    IN  [price |-> newPrice,
         priceHistory |-> Append(prevStock.priceHistory,
                                 [date |-> cl.market.currentDate, price |-> newPrice])]

(***************************************************************************)
(* Inputs.                                                                 *)
(***************************************************************************)
\* the settings the App component starts with
AppSettings ==
    [startYear |-> 1998, startMonth |-> 1, volatilityFactor |-> 10,
     timeScale |-> AppTimeScale, crashRandomness |-> 70, crashYear |-> 0]

\* settings a loaded save can hand to setSettings (SimulationSettings bounds neither
\* number): 800 days per tick and a sixfold volatility cross the bubble in a few ticks
CoarseSettings ==
    [AppSettings EXCEPT !.timeScale = 800, !.volatilityFactor = 60]

SettingsSet == {AppSettings, CoarseSettings}

\* the Market Volatility options of the settings panel: Low, Normal, High, Extreme
PanelVolatility == {5, 10, 15, 20}

\* coarse ticks under each volatility the panel offers
PanelSettings == {[CoarseSettings EXCEPT !.volatilityFactor = v] : v \in PanelVolatility}

\* Math.random() results of determineCrashTiming: the default schedule
\* (crash 2000-03, warned three months ahead) and a randomised one
ScheduleTapes ==
    {[a |-> 99, b |-> 0, c |-> 0, w |-> 99],
     [a |-> 0, b |-> 0, c |-> 50, w |-> 50]}

\* settings with and without a crash year chosen by the user
ScheduleSettings ==
    {[AppSettings EXCEPT !.crashYear = y, !.crashRandomness = r] :
        y \in {0, 2000, 2001}, r \in {30, 100}}

\* Math.random() results of determineCrashTiming covering every year, the first
\* three and the last months, and every warning distance
AllScheduleTapes ==
    [a : {0, 10, 20, 50, 99}, b : {0, 50, 99}, c : {0, 10, 20, 99}, w : {0, 50, 99}]

\* Math.random() results of one tick.  The crash roll, the index draw and the
\* game-over roll are sampled independently; the stock draws follow the index
\* draw, the bankruptcy roll follows the crash roll.
Tapes ==
    {[roll |-> r, idx |-> i, over |-> o,
      base |-> i, mkt |-> i, bonus |-> i, impact |-> i, bank |-> r, clamp |-> 50] :
        r \in {0, 99}, i \in {0, 99}, o \in {0, 99}}

\* the speed menu's Fast and Normal
Speeds == {InitialSpeed, 5000}

ShareAmounts == {10, 150}
TradeIds == StockIds \cup {"zzz"}

(***************************************************************************)
(* State after construction and after reset.                               *)
(***************************************************************************)
FreshMarket(s) ==
    LET startDate == formatDate(s.startYear, s.startMonth, 1)
    IN  [currentDate |-> startDate,
         marketIndex |-> InitialIndex,
         marketIndexHistory |-> <<[date |-> startDate, price |-> InitialIndex]>>,
         bubbleStage |-> "early",
         volatility |-> 20,
         news |-> <<>>,
         crashWarningShown |-> FALSE,
         crashProbability |-> 0,
         crashSeverity |-> InitialSeverity]

InitializedStocks(s) ==
    LET startDate == formatDate(s.startYear, s.startMonth, 1)
    IN  [id \in StockIds |->
            [price |-> InitialStocks[id].initialPrice,
             priceHistory |-> <<[date |-> startDate,
                                 price |-> InitialStocks[id].initialPrice]>>]]

EmptyPortfolio == [id \in {} |-> 0]

\* what the functions of the current render close over
Closure ==
    [market |-> market, crashEvents |-> crashEvents, settings |-> settings,
     gameOver |-> gameOver]

\* the rendered buyStock / sellStock see the committed cash and portfolio
Committed == view = [cash |-> cash, portfolio |-> portfolio]

\* two sessions of the signed-in user (two tabs) and the names they save under
Sessions == {1, 2}
GameNames == {"g1", "g2"}

\* a session with no saveGameProgress call
IdleSave == [pc |-> "idle", name |-> "", data |-> <<>>, existing |-> {}, order |-> 0,
             failed |-> FALSE]

\* no row, no call in flight, nothing returned yet
ServiceInit ==
    /\ savedGames = [rows |-> {}, nextId |-> 1]
    /\ saves = [p \in Sessions |-> IdleSave]
    /\ returned = [fn |-> "none"]

\* lastOp: the operation, and for a trade its stock id and share count, for a
\* reset the number of index points it discarded
Op(name) == [op |-> name, id |-> "", n |-> 0]

Mounted(budget) ==
    /\ settings \in SettingsSet
    /\ market = FreshMarket(settings)
    /\ stocks = InitializedStocks(settings)
    /\ isRunning = FALSE
    /\ gameOver = FALSE
    /\ simulationSpeed = InitialSpeed
    /\ crashEvents \in {determineCrashTiming(settings, t) : t \in ScheduleTapes}
    /\ intervals = {}
    /\ effectInterval = 0
    /\ portfolio = EmptyPortfolio
    /\ cash = InitialCash
    /\ view = [cash |-> InitialCash, portfolio |-> EmptyPortfolio]
    /\ lastOp = Op("init")
    /\ ServiceInit
    /\ left = budget

Init == Mounted(MaxSteps)

(***************************************************************************)
(* The timer effect, deps [isRunning, simulationSpeed, gameOver]: when a   *)
(* dependency changed in this commit, the cleanup clears the interval the  *)
(* effect armed and the effect arms a new one with the new render's        *)
(* advanceSimulation.                                                      *)
(***************************************************************************)
\* the effect does not depend on gameOver
TimerDepsWithoutGameOver == <<isRunning, simulationSpeed>>

TimerDeps == <<isRunning, simulationSpeed, gameOver>>

FreeId(live) ==
    CHOOSE n \in 1..(Cardinality(live) + 1) :
        /\ \A i \in live : i.id # n
        /\ \A k \in 1..(n - 1) : \E i \in live : i.id = k

\* the effect arms a new interval without a cleanup clearing the old one
TimerEffectWithoutCleanup ==
    IF TimerDeps' = TimerDeps
    THEN UNCHANGED <<intervals, effectInterval>>
    ELSE IF isRunning' /\ ~gameOver'
         THEN /\ intervals' = intervals \cup {[id |-> FreeId(intervals), cl |-> Closure']}
              /\ effectInterval' = FreeId(intervals)
         ELSE UNCHANGED <<intervals, effectInterval>>

TimerEffect ==
    IF TimerDeps' = TimerDeps
    THEN UNCHANGED <<intervals, effectInterval>>
    ELSE LET cleared == {i \in intervals : i.id # effectInterval}
         IN  IF isRunning' /\ ~gameOver'
             THEN /\ intervals' = cleared \cup {[id |-> FreeId(cleared), cl |-> Closure']}
                  /\ effectInterval' = FreeId(cleared)
             ELSE /\ intervals' = cleared
                  /\ effectInterval' = 0

(***************************************************************************)
(* Ticks.                                                                  *)
(***************************************************************************)
TickFrom(tapes, cl, days, name) ==
    /\ lastOp' = Op(name)
    /\ left' = left - 1
    /\ UNCHANGED serviceVars
    /\ IF cl.gameOver
       THEN UNCHANGED <<settings, market, stocks, isRunning, gameOver, simulationSpeed,
                        crashEvents, intervals, effectInterval, portfolio, cash, view>>
       ELSE \E tape \in tapes :
            LET r == MarketTick(market, cl, days, tape)
            IN  /\ market' = r.market
                /\ gameOver' = (gameOver \/ r.over)
                /\ crashEvents' = IF r.recordPeak
                                  THEN [crashEvents EXCEPT !.peakIndex = market.marketIndex]
                                  ELSE crashEvents
                /\ stocks' = [id \in StockIds |-> StockTick(id, stocks[id], cl, tape)]
                /\ UNCHANGED <<settings, isRunning, simulationSpeed, portfolio, cash, view>>
                /\ TimerEffect

Tick(cl, days, name) == TickFrom(Tapes, cl, days, name)

\* Step button (disabled while running)
advanceSimulation ==
    /\ Committed
    /\ ~isRunning
    /\ left > 0
    /\ Tick(Closure, settings.timeScale, "step")

\* Next Day button (disabled while running)
advanceToNextDay ==
    /\ Committed
    /\ ~isRunning
    /\ left > 0
    /\ Tick(Closure, 1, "nextDay")

\* a live interval fires the advanceSimulation it captured
TimerTick ==
    /\ Committed
    /\ left > 0
    /\ \E i \in intervals : Tick(i.cl, i.cl.settings.timeScale, "timerTick")

(***************************************************************************)
(* Controls.                                                               *)
(***************************************************************************)
\* the control only ever starts the simulation
startSimulation ==
    /\ Committed
    /\ left > 0
    /\ isRunning' = TRUE
    /\ lastOp' = Op("toggle")
    /\ left' = left - 1
    /\ UNCHANGED serviceVars
    /\ UNCHANGED <<settings, market, stocks, gameOver, simulationSpeed, crashEvents,
                   portfolio, cash, view>>
    /\ TimerEffect

toggleSimulation ==
    /\ Committed
    /\ left > 0
    /\ isRunning' = ~isRunning
    /\ lastOp' = Op("toggle")
    /\ left' = left - 1
    /\ UNCHANGED serviceVars
    /\ UNCHANGED <<settings, market, stocks, gameOver, simulationSpeed, crashEvents,
                   portfolio, cash, view>>
    /\ TimerEffect

setSpeed ==
    /\ Committed
    /\ left > 0
    /\ \E speed \in Speeds : simulationSpeed' = speed
    /\ lastOp' = Op("speed")
    /\ left' = left - 1
    /\ UNCHANGED serviceVars
    /\ UNCHANGED <<settings, market, stocks, isRunning, gameOver, crashEvents,
                   portfolio, cash, view>>
    /\ TimerEffect

\* the game-over flag survives the reset
resetSimulationKeepingGameOver ==
    /\ Committed
    /\ left > 0
    /\ market' = FreshMarket(settings)
    /\ stocks' = InitializedStocks(settings)
    /\ isRunning' = FALSE
    /\ \E t \in ScheduleTapes : crashEvents' = determineCrashTiming(settings, t)
    /\ lastOp' = [Op("reset") EXCEPT !.n = Len(market.marketIndexHistory)]
    /\ left' = left - 1
    /\ UNCHANGED serviceVars
    /\ UNCHANGED <<settings, simulationSpeed, portfolio, cash, view, gameOver>>
    /\ TimerEffect

\* a reset that also hands out the starting cash and an empty portfolio
ResetWithPortfolio(tapes) ==
    /\ Committed
    /\ left > 0
    /\ market' = FreshMarket(settings)
    /\ stocks' = InitializedStocks(settings)
    /\ gameOver' = FALSE
    /\ isRunning' = FALSE
    /\ \E t \in tapes : crashEvents' = determineCrashTiming(settings, t)
    /\ lastOp' = [Op("reset") EXCEPT !.n = Len(market.marketIndexHistory)]
    /\ left' = left - 1
    /\ cash' = InitialCash
    /\ portfolio' = EmptyPortfolio
    /\ UNCHANGED serviceVars
    /\ UNCHANGED <<settings, simulationSpeed, view>>
    /\ TimerEffect

\* resetSimulation, the draws of determineCrashTiming taken from `tapes`
Reset(tapes) ==
    /\ Committed
    /\ left > 0
    /\ market' = FreshMarket(settings)
    /\ stocks' = InitializedStocks(settings)
    /\ gameOver' = FALSE
    /\ isRunning' = FALSE
    /\ \E t \in tapes : crashEvents' = determineCrashTiming(settings, t)
    /\ lastOp' = [Op("reset") EXCEPT !.n = Len(market.marketIndexHistory)]
    /\ left' = left - 1
    /\ UNCHANGED serviceVars
    /\ UNCHANGED <<settings, simulationSpeed, portfolio, cash, view>>
    /\ TimerEffect

resetSimulation == Reset(ScheduleTapes)

\* setSettings to one of `choices`; the hook's effect on [initialStocks, settings]
\* re-initialises the stocks and the crash schedule (draws from `tapes`)
ApplySettings(choices, tapes) ==
    /\ Committed
    /\ left > 0
    /\ \E s \in choices \ {settings} :
        /\ settings' = s
        /\ stocks' = InitializedStocks(s)
        /\ \E t \in tapes : crashEvents' = determineCrashTiming(s, t)
    /\ lastOp' = Op("settings")
    /\ left' = left - 1
    /\ UNCHANGED serviceVars
    /\ UNCHANGED <<market, isRunning, gameOver, simulationSpeed, portfolio, cash, view,
                   intervals, effectInterval>>

changeSettings == ApplySettings(SettingsSet, ScheduleTapes)

(***************************************************************************)
(* Portfolio operations of the App component.                              *)
(***************************************************************************)
Held(p, id) == IF id \in DOMAIN p THEN p[id] ELSE 0

WithShares(p, id, n) == [k \in DOMAIN p \cup {id} |-> IF k = id THEN n ELSE p[k]]

Without(p, id) == [k \in DOMAIN p \ {id} |-> p[k]]

\* the cash check is missing
CanBuyUnchecked(id, shares) == id \in StockIds

\* the guard of buyStock: the stock exists and the rendered cash covers the cost
CanBuy(id, shares) == id \in StockIds /\ ~(stocks[id].price * shares > view.cash)

\* setPortfolio updater of buyStock
BoughtPortfolio(prev, id, shares) == WithShares(prev, id, Held(prev, id) + shares)

\* the requested amount is not capped
SharesToSellUncapped(id, shares) == shares

\* Math.min(shares, currentShares), currentShares read from the rendered portfolio
SharesToSell(id, shares) == Min(shares, Held(view.portfolio, id))

\* setPortfolio updater of sellStock (currentShares and sharesToSell come from the closure)
SoldPortfolio(prev, id, currentShares, sharesToSell) ==
    IF currentShares - sharesToSell <= 0
    THEN Without(prev, id)
    ELSE WithShares(prev, id, currentShares - sharesToSell)

buyStock ==
    /\ left > 0
    /\ \E id \in TradeIds, shares \in ShareAmounts :
        /\ IF CanBuy(id, shares)
           THEN /\ cash' = cash - stocks[id].price * shares
                /\ portfolio' = BoughtPortfolio(portfolio, id, shares)
           ELSE UNCHANGED <<cash, portfolio>>
        /\ lastOp' = [op |-> "buy", id |-> id, n |-> shares]
    /\ left' = left - 1
    /\ UNCHANGED serviceVars
    /\ UNCHANGED <<settings, market, stocks, isRunning, gameOver, simulationSpeed,
                   crashEvents, intervals, effectInterval, view>>

sellStock ==
    /\ left > 0
    /\ \E id \in TradeIds, shares \in ShareAmounts :
        /\ IF id \in StockIds /\ SharesToSell(id, shares) > 0
           THEN /\ cash' = cash + stocks[id].price * SharesToSell(id, shares)
                /\ portfolio' = SoldPortfolio(portfolio, id, Held(view.portfolio, id),
                                              SharesToSell(id, shares))
           ELSE UNCHANGED <<cash, portfolio>>
        /\ lastOp' = [op |-> "sell", id |-> id, n |-> shares]
    /\ left' = left - 1
    /\ UNCHANGED serviceVars
    /\ UNCHANGED <<settings, market, stocks, isRunning, gameOver, simulationSpeed,
                   crashEvents, intervals, effectInterval, view>>

\* React commits the queued updates and re-renders: buyStock and sellStock are recreated
Render ==
    /\ ~Committed
    /\ view' = [cash |-> cash, portfolio |-> portfolio]
    /\ UNCHANGED <<settings, market, stocks, isRunning, gameOver, simulationSpeed,
                   crashEvents, intervals, effectInterval, portfolio, cash, lastOp, left,
                   savedGames, saves, returned>>

(***************************************************************************)
(* Holdings table of the PortfolioManager component (amounts in cents,     *)
(* the percentage in whole percent).                                       *)
(***************************************************************************)
\* value = stock.price * shares
HoldingValue(id) == stocks[id].price * portfolio[id]

\* the cost basis follows the current price
CostBasisAtCurrentPrice(id) == stocks[id].price * portfolio[id]

\* costBasis = stock.initialPrice * shares
CostBasis(id) == InitialStocks[id].initialPrice * portfolio[id]

\* profit = value - costBasis
Profit(id) == HoldingValue(id) - CostBasis(id)

\* profitPercentage = (profit / costBasis) * 100
ProfitPercentage(id) == (Profit(id) * 100) \div CostBasis(id)

(***************************************************************************)
(* Specifications.  Spec: the simulation hook driven by its controls.      *)
(* SpecTrade: the App's portfolio operations over a running market.        *)
(***************************************************************************)
Next ==
    \/ advanceSimulation
    \/ advanceToNextDay
    \/ TimerTick
    \/ toggleSimulation
    \/ setSpeed
    \/ resetSimulation
    \/ changeSettings

Spec == Init /\ [][Next]_vars

\* the Market Volatility select of the settings panel
changeVolatility ==
    /\ Committed
    /\ left > 0
    /\ \E v \in PanelVolatility \ {settings.volatilityFactor} :
        /\ settings' = [settings EXCEPT !.volatilityFactor = v]
        /\ stocks' = InitializedStocks(settings')
        /\ \E t \in ScheduleTapes : crashEvents' = determineCrashTiming(settings', t)
    /\ lastOp' = Op("settings")
    /\ left' = left - 1
    /\ UNCHANGED serviceVars
    /\ UNCHANGED <<market, isRunning, gameOver, simulationSpeed, portfolio, cash, view,
                   intervals, effectInterval>>

\* SpecPanel: the hook under the volatilities of the settings panel
InitPanel ==
    /\ settings \in PanelSettings
    /\ market = FreshMarket(settings)
    /\ stocks = InitializedStocks(settings)
    /\ isRunning = FALSE
    /\ gameOver = FALSE
    /\ simulationSpeed = InitialSpeed
    /\ crashEvents \in {determineCrashTiming(settings, t) : t \in ScheduleTapes}
    /\ intervals = {}
    /\ effectInterval = 0
    /\ portfolio = EmptyPortfolio
    /\ cash = InitialCash
    /\ view = [cash |-> InitialCash, portfolio |-> EmptyPortfolio]
    /\ lastOp = Op("init")
    /\ ServiceInit
    /\ left = MaxPanelSteps

NextPanel ==
    \/ advanceSimulation
    \/ advanceToNextDay
    \/ changeVolatility

SpecPanel == InitPanel /\ [][NextPanel]_vars

\* SpecSchedule: the crash schedule over the settings and draws that decide it
InitSchedule ==
    /\ settings \in ScheduleSettings
    /\ market = FreshMarket(settings)
    /\ stocks = InitializedStocks(settings)
    /\ isRunning = FALSE
    /\ gameOver = FALSE
    /\ simulationSpeed = InitialSpeed
    /\ crashEvents \in {determineCrashTiming(settings, t) : t \in AllScheduleTapes}
    /\ intervals = {}
    /\ effectInterval = 0
    /\ portfolio = EmptyPortfolio
    /\ cash = InitialCash
    /\ view = [cash |-> InitialCash, portfolio |-> EmptyPortfolio]
    /\ lastOp = Op("init")
    /\ ServiceInit
    /\ left = MaxScheduleSteps

rescheduleOnReset == Reset(AllScheduleTapes)

rescheduleOnSettings == ApplySettings(ScheduleSettings, AllScheduleTapes)

NextSchedule ==
    \/ rescheduleOnReset
    \/ rescheduleOnSettings

SpecSchedule == InitSchedule /\ [][NextSchedule]_vars

InitTrade == Mounted(MaxTradeSteps) /\ settings = CoarseSettings

NextTrade ==
    \/ buyStock
    \/ sellStock
    \/ Render
    \/ advanceSimulation

SpecTrade == InitTrade /\ [][NextTrade]_vars

\* a time scale that visits every rung of the calendar ladder within six ticks
\* (1998-05, 1998-10, 1999-03, 1999-08, 2000-01, 2000-06)
MaxLadderSteps == 6
LadderSettings == [AppSettings EXCEPT !.timeScale = 150]

\* a session from 1998-01-01 under each crash schedule, stepped by hand
InitLadder ==
    /\ settings \in {AppSettings, LadderSettings}
    /\ market = FreshMarket(settings)
    /\ stocks = InitializedStocks(settings)
    /\ isRunning = FALSE
    /\ gameOver = FALSE
    /\ simulationSpeed = InitialSpeed
    /\ crashEvents \in {determineCrashTiming(settings, t) : t \in AllScheduleTapes}
    /\ intervals = {}
    /\ effectInterval = 0
    /\ portfolio = EmptyPortfolio
    /\ cash = InitialCash
    /\ view = [cash |-> InitialCash, portfolio |-> EmptyPortfolio]
    /\ lastOp = Op("init")
    /\ ServiceInit
    /\ left = MaxLadderSteps

NextLadder ==
    \/ advanceSimulation

SpecLadder == InitLadder /\ [][NextLadder]_vars

\* sessions started in December 1999 on the default schedule (crash 2000-03-15,
\* warned one or three months ahead): with 100 days per tick the first tick
\* passes the warning date only, with 120 days it passes the crash date as well;
\* the cap of the crash probability is reached within seven ticks
MaxRampSteps == 7
RampSettings ==
    {[AppSettings EXCEPT !.startYear = 1999, !.startMonth = 12, !.timeScale = t] :
        t \in {100, 120}}
RampTapes == [a : {99}, b : {0}, c : {0}, w : {0, 99}]

InitRamp ==
    /\ settings \in RampSettings
    /\ market = FreshMarket(settings)
    /\ stocks = InitializedStocks(settings)
    /\ isRunning = FALSE
    /\ gameOver = FALSE
    /\ simulationSpeed = InitialSpeed
    /\ crashEvents \in {determineCrashTiming(settings, t) : t \in RampTapes}
    /\ intervals = {}
    /\ effectInterval = 0
    /\ portfolio = EmptyPortfolio
    /\ cash = InitialCash
    /\ view = [cash |-> InitialCash, portfolio |-> EmptyPortfolio]
    /\ lastOp = Op("init")
    /\ ServiceInit
    /\ left = MaxRampSteps

NextRamp ==
    \/ advanceSimulation

SpecRamp == InitRamp /\ [][NextRamp]_vars

\* Math.random() results of one tick with the midpoint of the index draw added
MaxIndexSteps == 6
IndexTapes ==
    {[roll |-> r, idx |-> i, over |-> o,
      base |-> i, mkt |-> i, bonus |-> i, impact |-> i, bank |-> r, clamp |-> 50] :
        r \in {0, 99}, i \in {0, 50, 99}, o \in {0, 99}}

\* 150 days per tick under each volatility the panel offers
IndexSettings == {[LadderSettings EXCEPT !.volatilityFactor = v] : v \in PanelVolatility}

InitIndex ==
    /\ settings \in IndexSettings
    /\ market = FreshMarket(settings)
    /\ stocks = InitializedStocks(settings)
    /\ isRunning = FALSE
    /\ gameOver = FALSE
    /\ simulationSpeed = InitialSpeed
    /\ crashEvents \in {determineCrashTiming(settings, t) : t \in ScheduleTapes}
    /\ intervals = {}
    /\ effectInterval = 0
    /\ portfolio = EmptyPortfolio
    /\ cash = InitialCash
    /\ view = [cash |-> InitialCash, portfolio |-> EmptyPortfolio]
    /\ lastOp = Op("init")
    /\ ServiceInit
    /\ left = MaxIndexSteps

\* Step button, the index draw taking its low end, midpoint or high end
stepIndex ==
    /\ Committed
    /\ ~isRunning
    /\ left > 0
    /\ TickFrom(IndexTapes, Closure, settings.timeScale, "step")

NextIndex ==
    \/ stepIndex

SpecIndex == InitIndex /\ [][NextIndex]_vars

\* sessions from each start year of the settings panel, from its first, a middle
\* and its last start month, with 7 and with 150 days per tick
MaxStageSteps == 6
StageSettings ==
    {[AppSettings EXCEPT !.startYear = y, !.startMonth = m, !.timeScale = t] :
        y \in {1997, 1998, 1999}, m \in {1, 6, 12}, t \in {AppTimeScale, 150}}

InitStage ==
    /\ settings \in StageSettings
    /\ market = FreshMarket(settings)
    /\ stocks = InitializedStocks(settings)
    /\ isRunning = FALSE
    /\ gameOver = FALSE
    /\ simulationSpeed = InitialSpeed
    /\ crashEvents \in {determineCrashTiming(settings, t) : t \in ScheduleTapes}
    /\ intervals = {}
    /\ effectInterval = 0
    /\ portfolio = EmptyPortfolio
    /\ cash = InitialCash
    /\ view = [cash |-> InitialCash, portfolio |-> EmptyPortfolio]
    /\ lastOp = Op("init")
    /\ ServiceInit
    /\ left = MaxStageSteps

NextStageSpec ==
    \/ advanceSimulation

SpecStage == InitStage /\ [][NextStageSpec]_vars

\* trading sessions that are restarted: the Reset button, Apply & Restart and
\* Start New Game all call resetSimulation
MaxRestartSteps == 4
InitRestart == Mounted(MaxRestartSteps) /\ settings = CoarseSettings

NextRestart ==
    \/ buyStock
    \/ sellStock
    \/ Render
    \/ advanceSimulation
    \/ resetSimulation

SpecRestart == InitRestart /\ [][NextRestart]_vars

(***************************************************************************)
(* Save service (supabase client) and the SaveLoadManager handlers.  The   *)
(* table is a set of rows; ids come from a generator that never repeats.   *)
(* A remote request ends in one of three ways: "ok", "error" (the client   *)
(* resolves to {data: null, error}) or "throw" (the promise rejects).      *)
(* Null is id 0.  The JSONB columns hold the state objects unchanged.      *)
(***************************************************************************)
MaxSaveSteps == 3
User == "user"
Null == 0
Outcomes == {"ok", "error", "throw"}

\* currentGameState as App hands it to the SaveLoadManager
currentGameState ==
    [marketState |-> market, stocks |-> stocks, portfolio |-> portfolio,
     cash |-> cash, settings |-> settings]

\* the row saveGameProgress builds from its arguments
gameData(name, state) ==
    [user_id |-> User, game_name |-> name, market_state |-> state.marketState,
     stocks |-> state.stocks, portfolio |-> state.portfolio, cash |-> state.cash,
     settings |-> state.settings]

Row(id, data) ==
    [id |-> id, user_id |-> data.user_id, game_name |-> data.game_name,
     market_state |-> data.market_state, stocks |-> data.stocks,
     portfolio |-> data.portfolio, cash |-> data.cash, settings |-> data.settings]

\* select('id').eq('user_id', ...).eq('game_name', ...)
existingSaves(name) ==
    {r.id : r \in {x \in savedGames.rows : x.user_id = User /\ x.game_name = name}}

\* how many saveGameProgress calls have written
Written == Cardinality({p \in Sessions : saves[p].order > 0})

\* handleSaveGame: saveGameProgress is entered with the rendered state
saveCall ==
    /\ left > 0
    /\ \E p \in Sessions, name \in GameNames :
        /\ saves[p].pc \in {"idle", "done"}
        /\ saves' = [saves EXCEPT ![p] = [IdleSave EXCEPT !.pc = "select", !.name = name,
                                                         !.data = gameData(name, currentGameState)]]
        /\ lastOp' = [Op("saveCall") EXCEPT !.n = p]
    /\ left' = left - 1
    /\ UNCHANGED <<settings, market, stocks, isRunning, gameOver, simulationSpeed,
                   crashEvents, intervals, effectInterval, portfolio, cash, view,
                   savedGames, returned>>

\* saveGameProgress, first await: look for a save of this name.  The error
\* of the select is not read: with data null the call goes on to insert.
SaveSelect(outcomes) ==
    /\ \E p \in Sessions, outcome \in outcomes :
        /\ saves[p].pc = "select"
        /\ IF outcome = "throw"
           THEN /\ saves' = [saves EXCEPT ![p].pc = "done", ![p].failed = TRUE]
                /\ returned' = [fn |-> "saveGameProgress", failed |-> TRUE, wrote |-> FALSE,
                                id |-> Null]
           ELSE /\ saves' = [saves EXCEPT ![p].pc = "write",
                                          ![p].failed = (outcome = "error"),
                                          ![p].existing = IF outcome = "ok"
                                                          THEN existingSaves(saves[p].name)
                                                          ELSE {}]
                /\ UNCHANGED returned
        /\ lastOp' = [Op("saveSelect") EXCEPT !.n = p]
    /\ UNCHANGED <<settings, market, stocks, isRunning, gameOver, simulationSpeed,
                   crashEvents, intervals, effectInterval, portfolio, cash, view, left,
                   savedGames>>

\* result.data?.[0]?.id || null after insert([gameData]): the id of the new
\* row when the client returns the inserted rows, null when it does not
InsertedId(id, outcome) == IF outcome = "ok" THEN {id, Null} ELSE {Null}

\* return existingSaves[0].id after update(gameData).eq('id', ...): the
\* result of the update is not read
UpdatedId(id, outcome) == IF outcome = "throw" THEN Null ELSE id

\* saveGameProgress, second await: update the first row found, or insert
SaveWrite(outcomes) ==
    /\ \E p \in Sessions, outcome \in outcomes :
        /\ saves[p].pc = "write"
        /\ IF saves[p].existing # {}
           THEN \E first \in saves[p].existing :
                /\ savedGames' =
                     IF outcome = "ok"
                     THEN [savedGames EXCEPT !.rows =
                             {IF r.id = first THEN Row(first, saves[p].data) ELSE r : r \in @}]
                     ELSE savedGames
                /\ returned' = [fn |-> "saveGameProgress",
                                failed |-> saves[p].failed \/ outcome # "ok",
                                wrote |-> outcome = "ok" /\ first \in {r.id : r \in savedGames.rows},
                                id |-> UpdatedId(first, outcome)]
           ELSE /\ savedGames' =
                     IF outcome = "ok"
                     THEN [rows |-> savedGames.rows \cup {Row(savedGames.nextId, saves[p].data)},
                           nextId |-> savedGames.nextId + 1]
                     ELSE savedGames
                /\ \E id \in InsertedId(savedGames.nextId, outcome) :
                     returned' = [fn |-> "saveGameProgress",
                                  failed |-> saves[p].failed \/ outcome # "ok",
                                  wrote |-> outcome = "ok", id |-> id]
        /\ saves' = [saves EXCEPT ![p].pc = "done",
                                  ![p].failed = @ \/ outcome # "ok",
                                  ![p].order = IF outcome = "ok" THEN Written + 1 ELSE 0]
        /\ lastOp' = [Op("saveWrite") EXCEPT !.n = p]
    /\ UNCHANGED <<settings, market, stocks, isRunning, gameOver, simulationSpeed,
                   crashEvents, intervals, effectInterval, portfolio, cash, view, left>>

\* loadSavedGames: the rows of the user; an error is thrown and caught
LoadSavedGames(outcomes) ==
    /\ left > 0
    /\ \E outcome \in outcomes :
        returned' = [fn |-> "loadSavedGames", failed |-> outcome # "ok",
                     games |-> IF outcome = "ok"
                               THEN {r \in savedGames.rows : r.user_id = User} ELSE {}]
    /\ lastOp' = Op("loadSavedGames")
    /\ left' = left - 1
    /\ UNCHANGED <<settings, market, stocks, isRunning, gameOver, simulationSpeed,
                   crashEvents, intervals, effectInterval, portfolio, cash, view,
                   savedGames, saves>>

\* loadSavedGame: select('*').eq('id', gameId).single(); no row is an error
loadSavedGame(gameId, outcome) ==
    LET found == {r \in savedGames.rows : r.id = gameId}
    IN  IF outcome = "ok" /\ found # {} THEN found ELSE {}

\* loadGameState of App: portfolio, cash and settings are set; the market and
\* the stocks are not.  The new settings object runs the hook's effect, which
\* initializes the stocks and determines the crash timing again.
loadGameState(savedGame) ==
    /\ portfolio' = savedGame.portfolio
    /\ cash' = savedGame.cash
    /\ settings' = savedGame.settings
    /\ stocks' = InitializedStocks(savedGame.settings)
    /\ \E tape \in ScheduleTapes :
         crashEvents' = determineCrashTiming(savedGame.settings, tape)
    /\ UNCHANGED market

\* handleLoadGame: load the row and, when there is one, hand it to App
HandleLoadGame(outcomes) ==
    /\ left > 0
    /\ \E gameId \in 1..MaxSaveSteps, outcome \in outcomes :
        LET game == loadSavedGame(gameId, outcome)
        IN  /\ returned' = [fn |-> "loadSavedGame", failed |-> outcome # "ok",
                            game |-> game]
            /\ IF game # {}
               THEN /\ \E savedGame \in game : loadGameState(savedGame)
                    /\ lastOp' = [Op("load") EXCEPT !.n = gameId]
               ELSE /\ UNCHANGED <<market, stocks, portfolio, cash, settings, crashEvents>>
                    /\ lastOp' = [Op("loadFailed") EXCEPT !.n = gameId]
    /\ left' = left - 1
    /\ UNCHANGED <<isRunning, gameOver, simulationSpeed, intervals, effectInterval, view,
                   savedGames, saves>>

\* handleDeleteGame: deleteSavedGame
DeleteSavedGame(outcomes) ==
    /\ left > 0
    /\ \E gameId \in 1..MaxSaveSteps, outcome \in outcomes :
        /\ savedGames' = IF outcome = "ok"
                         THEN [savedGames EXCEPT !.rows = {r \in @ : r.id # gameId}]
                         ELSE savedGames
        /\ returned' = [fn |-> "deleteSavedGame", failed |-> outcome # "ok",
                        deleted |-> outcome = "ok"]
        /\ lastOp' = [Op("delete") EXCEPT !.n = gameId]
    /\ left' = left - 1
    /\ UNCHANGED <<settings, market, stocks, isRunning, gameOver, simulationSpeed,
                   crashEvents, intervals, effectInterval, portfolio, cash, view, saves>>

NoAdvice == "Sorry, I couldn't generate advice right now. The markets are crazy!"
NoConnection ==
    "Sorry, I'm having trouble connecting to my Wall Street sources right now. Try again in a bit!"

\* generateInvestmentAdvice: the trimmed completion, or a fixed string when
\* the completion is empty or the request throws
AdviceText(outcome, content) ==
    IF outcome = "ok" THEN (IF content = "" THEN NoAdvice ELSE content) ELSE NoConnection

\* the OpenAI client rejects on failure: "ok" or "throw"
generateInvestmentAdvice ==
    /\ left > 0
    /\ \E outcome \in {"ok", "throw"}, content \in {"", "Buy the dip"} :
        returned' = [fn |-> "generateInvestmentAdvice", failed |-> outcome # "ok",
                     text |-> AdviceText(outcome, IF outcome = "ok" THEN content ELSE "")]
    /\ lastOp' = Op("advice")
    /\ left' = left - 1
    /\ UNCHANGED <<settings, market, stocks, isRunning, gameOver, simulationSpeed,
                   crashEvents, intervals, effectInterval, portfolio, cash, view,
                   savedGames, saves>>

\* the save service while every remote request succeeds
saveSelect == SaveSelect({"ok"})
saveWrite == SaveWrite({"ok"})
handleLoadGame == HandleLoadGame({"ok"})

InitSave == Mounted(MaxSaveSteps) /\ settings = AppSettings

NextSave ==
    \/ advanceSimulation
    \/ saveCall
    \/ saveSelect
    \/ saveWrite
    \/ handleLoadGame

SpecSave == InitSave /\ [][NextSave]_vars

\* the service calls while a remote request may fail
saveSelectRemote == SaveSelect(Outcomes)
saveWriteRemote == SaveWrite(Outcomes)
loadSavedGames == LoadSavedGames(Outcomes)
handleLoadGameRemote == HandleLoadGame(Outcomes)
deleteSavedGame == DeleteSavedGame(Outcomes)

NextService ==
    \/ saveCall
    \/ saveSelectRemote
    \/ saveWriteRemote
    \/ loadSavedGames
    \/ handleLoadGameRemote
    \/ deleteSavedGame
    \/ generateInvestmentAdvice

SpecService == InitSave /\ [][NextService]_vars

(***************************************************************************)
(* Properties.                                                             *)
(***************************************************************************)
TickOps == {"step", "nextDay", "timerTick"}

Warnings(news) == {i \in 1..Len(news) : news[i].kind = "warning"}

\* C1: the crash stage is absorbing: once bubbleStage is 'crash', every step
\* other than resetSimulation (manual tick, timer tick, control) leaves it 'crash'.
C1_CrashAbsorbing ==
    [][(market.bubbleStage = "crash" /\ lastOp'.op # "reset")
          => market'.bubbleStage = "crash"]_vars

\* a tick without a crash roll was applied in the crash stage: the newest news
\* item is a crash item older than the current date
C1_Witness ==
    /\ market.bubbleStage = "crash"
    /\ lastOp.op \in TickOps
    /\ market.news # <<>>
    /\ market.news[1].kind = "crash"
    /\ market.news[1].date < market.currentDate

\* C2: index floor: in every reachable state marketIndex >= 100 and every point
\* of marketIndexHistory has price >= 100.
C2_IndexFloor ==
    /\ market.marketIndex >= IndexFloor
    /\ \A i \in 1..Len(market.marketIndexHistory) :
          market.marketIndexHistory[i].price >= IndexFloor

\* a tick whose product fell below 100 was floored
C2_Witness ==
    LET h == market.marketIndexHistory
    IN  /\ Len(h) > 1
        /\ h[Len(h)].price = IndexFloor
        /\ h[Len(h) - 1].price > IndexFloor
        /\ market.marketIndex = IndexFloor

C4_WarningOnce == Cardinality(Warnings(market.news)) <= 1

\* a tick was applied after the tick that emitted the warning
C4_Witness ==
    /\ market.crashWarningShown
    /\ lastOp.op \in TickOps
    /\ \E i \in Warnings(market.news) : market.news[i].date < market.currentDate

\* C5: right after resetSimulation the index is 1000, the date is the first of the
\* start month, the stage is 'early', the index history and every price history are
\* a single seed point at the start date (price = initialPrice), the news are empty,
\* the warning flag is false, the crash probability is 0, and the running and
\* game-over flags are cleared.
C5_ResetRestores ==
    lastOp.op = "reset" =>
        LET startDate == formatDate(settings.startYear, settings.startMonth, 1)
        IN  /\ market.marketIndex = InitialIndex
            /\ market.currentDate = startDate
            /\ market.bubbleStage = "early"
            /\ market.marketIndexHistory = <<[date |-> startDate, price |-> InitialIndex]>>
            /\ \A id \in StockIds :
                  /\ stocks[id].price = InitialStocks[id].initialPrice
                  /\ stocks[id].priceHistory =
                        <<[date |-> startDate, price |-> InitialStocks[id].initialPrice]>>
            /\ market.news = <<>>
            /\ market.crashWarningShown = FALSE
            /\ market.crashProbability = 0
            /\ isRunning = FALSE
            /\ gameOver = FALSE

\* resetSimulation discarded an index history of at least two ticks
C5_Witness ==
    /\ lastOp.op = "reset"
    /\ lastOp.n >= 3
    /\ Len(market.marketIndexHistory) = 1

BuyStep(id, n) == lastOp' = [op |-> "buy", id |-> id, n |-> n] /\ left' = left - 1

SellStep(id, n) == lastOp' = [op |-> "sell", id |-> id, n |-> n] /\ left' = left - 1

\* C6: buyStock(id, n) with rendered cash c and price p: if the stock exists and
\* c >= n*p, cash decreases by exactly n*p and the holding of id grows by exactly n,
\* the other holdings unchanged; otherwise cash and portfolio are unchanged.
C6_BuySemantics ==
    [][\A id \in TradeIds, n \in ShareAmounts :
          BuyStep(id, n) =>
             IF id \in StockIds /\ view.cash >= n * stocks[id].price
             THEN /\ cash' = cash - n * stocks[id].price
                  /\ Held(portfolio', id) = Held(portfolio, id) + n
                  /\ \A k \in StockIds \ {id} : Held(portfolio', k) = Held(portfolio, k)
             ELSE cash' = cash /\ portfolio' = portfolio]_vars

\* ten shares of a were bought at $50 out of $10000
C6_Witness ==
    /\ lastOp = [op |-> "buy", id |-> "a", n |-> 10]
    /\ cash = InitialCash - 10 * InitialStocks["a"].initialPrice
    /\ Held(portfolio, "a") = 10
    /\ stocks["a"].price = InitialStocks["a"].initialPrice

\* C7: sellStock(id, s) with h shares in the rendered portfolio sells min(s, h):
\* cash grows by price * min(s, h), the holding becomes h - min(s, h) (never
\* negative, the entry removed at zero); with h = 0 or an unknown id nothing changes.
C7_SellCapped ==
    [][\A id \in TradeIds, n \in ShareAmounts :
          SellStep(id, n) =>
             LET h == Held(view.portfolio, id)
                 sold == Min(n, h)
             IN  IF id \in StockIds /\ sold > 0
                 THEN /\ cash' = cash + stocks[id].price * sold
                      /\ Held(portfolio', id) = h - sold
                      /\ Held(portfolio', id) >= 0
                      /\ (h = sold => id \notin DOMAIN portfolio')
                      /\ \A k \in StockIds \ {id} : Held(portfolio', k) = Held(portfolio, k)
                 ELSE cash' = cash /\ portfolio' = portfolio]_vars

\* 150 shares of a were offered with 10 held: 10 were sold
C7_Witness ==
    /\ lastOp = [op |-> "sell", id |-> "a", n |-> 150]
    /\ Held(view.portfolio, "a") = 10
    /\ "a" \notin DOMAIN portfolio
    /\ cash = view.cash + 10 * stocks["a"].price

\* C8: in every reachable state cash >= 0 and every portfolio entry is a strictly
\* positive share count, also after two operations issued against one render.
C8_PortfolioInvariant ==
    /\ cash >= 0
    /\ \A id \in DOMAIN portfolio : portfolio[id] > 0

\* C9 (as amended): from cash 10000 and a at 50, buying 10 shares gives cash 9500 and
\* a holding of 10; once a's price is 80 the holding is worth 800, its profit is 300
\* and the reported percentage is 60 (profit over the cost basis of 500).
C9_Scenario ==
    /\ (lastOp = [op |-> "buy", id |-> "a", n |-> 10] /\ left = MaxTradeSteps - 1)
          => (cash = 950000 /\ Held(portfolio, "a") = 10)
    /\ (Held(portfolio, "a") = 10 /\ stocks["a"].price = 8000)
          => (HoldingValue("a") = 80000 /\ Profit("a") = 30000
                /\ ProfitPercentage("a") = 60)

\* the ten shares bought at 50 are held while the price is 80
C9_Witness ==
    /\ cash = 950000
    /\ Held(portfolio, "a") = 10
    /\ stocks["a"].price = 8000
    /\ Committed

\* C9 as stated: the same scenario with the profit reported as 30%.
C9_ScenarioAsStated ==
    /\ (lastOp = [op |-> "buy", id |-> "a", n |-> 10] /\ left = MaxTradeSteps - 1)
          => (cash = 950000 /\ Held(portfolio, "a") = 10)
    /\ (Held(portfolio, "a") = 10 /\ stocks["a"].price = 8000)
          => (HoldingValue("a") = 80000 /\ Profit("a") = 30000
                /\ ProfitPercentage("a") = 30)

\* C10: game over is terminal: while gameOver is true no interval is live and
\* every tick (manual or timer-driven) leaves market and stocks unchanged;
\* only resetSimulation clears the flag.
C10_GameOverTerminal ==
    [][gameOver =>
          /\ intervals = {}
          /\ (lastOp'.op \in TickOps => UNCHANGED <<market, stocks>>)
          /\ (lastOp'.op # "reset" => gameOver')]_vars

\* Next Day was pressed after the game ended: the last applied tick is not a
\* one-day tick
C10_Witness ==
    LET h == market.marketIndexHistory
    IN  /\ gameOver
        /\ lastOp.op = "nextDay"
        /\ Len(h) > 1
        /\ h[Len(h)].date - h[Len(h) - 1].date > 1

\* the market has crashed, the year is 2002 or later, the severity is full and the
\* index is far enough above the floor that a 30% fall is not stopped by it
CrashedAfter2002 ==
    /\ ~gameOver
    /\ market.bubbleStage = "crash"
    /\ YearOf(market.currentDate) >= 2002
    /\ market.crashSeverity = 1000
    /\ market.marketIndex * 7 > IndexFloor * 10

\* C11: under each volatility of the settings panel the game can end: once the
\* market has crashed and the year is 2002 or later, some outcome of the next
\* tick's draws takes the index strictly below 0.7 times the previous index, so
\* that the tick can set the game-over flag.
C11_GameOverPossible ==
    (settings.volatilityFactor \in PanelVolatility /\ CrashedAfter2002)
        => \E tape \in Tapes : MarketTick(market, Closure, settings.timeScale, tape).over

\* C12: at most one interval is live at any moment, and a live interval is the
\* one the current timer effect armed, while the simulation runs and the game
\* is not over.
C12_OneTimer ==
    /\ Cardinality(intervals) <= 1
    /\ \A i \in intervals : i.id = effectInterval /\ isRunning /\ ~gameOver

\* the speed was changed while running: the interval was cleared and re-armed
C12_Witness ==
    /\ lastOp.op = "speed"
    /\ simulationSpeed # InitialSpeed
    /\ isRunning
    /\ Cardinality(intervals) = 1

\* the same control (toggleSimulation or resetSimulation) is invoked a second time
SameControlAgain ==
    /\ lastOp.op \in {"toggle", "reset"}
    /\ lastOp'.op = lastOp.op
    /\ left' = left - 1

\* C13 (as amended): a second resetSimulation leaves the running flag false; a
\* second toggleSimulation flips the running flag back to its value before the first.
C13_ResetIdempotentToggleFlips ==
    [][SameControlAgain =>
          IF lastOp.op = "reset" THEN ~isRunning /\ ~isRunning'
          ELSE isRunning' = ~isRunning]_vars

\* toggleSimulation was invoked twice from the initial state: paused again
C13_Witness ==
    /\ lastOp.op = "toggle"
    /\ left = MaxSteps - 2
    /\ ~isRunning
    /\ intervals = {}
    /\ Len(market.marketIndexHistory) = 1

\* C13 as stated: invoking the same control a second time leaves the running
\* flag as it was after the first invocation.
C13_ControlsIdempotent ==
    [][SameControlAgain => isRunning' = isRunning]_vars

\* calendar months since year 0 of a date
MonthIndex(date) == YearOf(date) * 12 + MonthOf(date)

DayOfMonth(date) == date - formatDate(YearOf(date), MonthOf(date), 1) + 1

\* C14: for every crash schedule, the warning date is strictly before the crash
\* date by exactly 1, 2 or 3 calendar months, both on day 15.
C14_WarningMonthsAhead ==
    /\ crashEvents.warningDate < crashEvents.crashDate
    /\ MonthIndex(crashEvents.crashDate) - MonthIndex(crashEvents.warningDate) \in {1, 2, 3}
    /\ DayOfMonth(crashEvents.warningDate) = 15
    /\ DayOfMonth(crashEvents.crashDate) = 15

\* a January crash under a fixed crash year, warned three months ahead in the
\* previous year
C14_Witness ==
    /\ settings.crashYear = 2001
    /\ crashEvents.crashDate = formatDate(2001, 1, 15)
    /\ crashEvents.warningDate = formatDate(2000, 10, 15)

\* the crash items of the news, newest first
Crashes(news) == {i \in 1..Len(news) : news[i].kind = "crash"}

\* C15: the tick at which bubbleStage first becomes 'crash' (the oldest crash
\* item of the news carries its date) has a simulated year from 2002 to 2004.
C15_CrashIn2002To2004 ==
    market.bubbleStage = "crash" =>
        \A i \in Crashes(market.news) :
            (\A j \in Crashes(market.news) : j <= i)
                => YearOf(market.news[i].date) \in 2002..2004

\* no saveGameProgress call is between its two requests
Quiescent == \A p \in Sessions : saves[p].pc \in {"idle", "done"}

\* the rows of the user saved under a name
RowsNamed(name) == {r \in savedGames.rows : r.user_id = User /\ r.game_name = name}

\* C16: once the saveGameProgress calls of the user under one name have
\* returned, there is exactly one saved_games row for that (user, name) and it
\* holds the state of the call that wrote last.
C16_LastWriteWins ==
    Quiescent =>
        \A name \in GameNames :
            LET done == {p \in Sessions : saves[p].pc = "done" /\ saves[p].name = name}
            IN  done # {} =>
                    /\ Cardinality(RowsNamed(name)) = 1
                    /\ \A r \in RowsNamed(name), p \in done :
                         (\A q \in done : saves[q].order <= saves[p].order)
                             => r = Row(r.id, saves[p].data)

\* C17: a service call whose remote request failed returns its failure value:
\* saveGameProgress null (and an id only when it wrote a row), loadSavedGames
\* the empty list, loadSavedGame null, deleteSavedGame false,
\* generateInvestmentAdvice a fixed fallback string.
C17_FailureValues ==
    /\ returned.fn = "saveGameProgress" =>
          /\ returned.failed => returned.id = Null
          /\ returned.id # Null => returned.wrote
    /\ (returned.fn = "loadSavedGames" /\ returned.failed) => returned.games = {}
    /\ (returned.fn = "loadSavedGame" /\ returned.failed) => returned.game = {}
    /\ (returned.fn = "deleteSavedGame" /\ returned.failed) => ~returned.deleted
    /\ (returned.fn = "generateInvestmentAdvice" /\ returned.failed)
          => returned.text \in {NoAdvice, NoConnection}

\* C18: after a saved game is loaded, the market state, the stocks, the
\* portfolio, the cash and the settings equal what the saved row holds.
C18_RoundTrip ==
    lastOp.op = "load" =>
        \E r \in savedGames.rows :
            /\ r.id = lastOp.n
            /\ market = r.market_state
            /\ stocks = r.stocks
            /\ portfolio = r.portfolio
            /\ cash = r.cash
            /\ settings = r.settings

\* a tick of the market was applied in this step
Ticked ==
    /\ lastOp'.op \in TickOps
    /\ Len(market'.marketIndexHistory) = Len(market.marketIndexHistory) + 1

C20_ProbabilityRamp ==
    [][LET p == market.crashProbability
           new == market'.crashProbability
           d == market'.currentDate
           warn == d >= crashEvents.warningDate /\ ~market.crashWarningShown
           past == d >= crashEvents.crashDate
           start == IF warn THEN 30 ELSE p
       IN  /\ Ticked => /\ new = IF past THEN Min(start + 10, 95) ELSE start
                        /\ new >= p
           /\ ~Ticked => new = p
           /\ new <= 95
           /\ ~market'.crashWarningShown => new = 0]_vars

\* a tick dated past the crash date found the probability at 0.9 or more and
\* left it at the cap
C20_Witness ==
    /\ lastOp.op \in TickOps
    /\ market.crashProbability = 95
    /\ market.crashWarningShown
    /\ market.currentDate >= crashEvents.crashDate

\* C20 as stated: the tick that shows the warning leaves the probability at 0.3.
C20_WarningTickSetsThirty ==
    [][LET p == market.crashProbability
           new == market'.crashProbability
           d == market'.currentDate
           warn == d >= crashEvents.warningDate /\ ~market.crashWarningShown
           past == d >= crashEvents.crashDate
       IN  /\ Ticked => /\ new = IF warn THEN 30
                                 ELSE IF past THEN Min(p + 10, 95)
                                 ELSE p
                        /\ new >= p
           /\ new <= 95
           /\ ~market'.crashWarningShown => new = 0]_vars

\* C21: the crash severity is 0.5 while the date is before the crash date, after
\* a tick dated on or after the crash date it is min(0.5 + daysPastCrash/30 * 0.5, 1.0),
\* it always lies between 0.5 and 1.0 and is 1.0 from 30 days past the crash date on.
C21_SeverityFollowsCrashDate ==
    LET d == market.currentDate
        past == d - crashEvents.crashDate
        severity == market.crashSeverity
    IN  /\ 500 <= severity /\ severity <= 1000
        /\ past < 0 => severity = 500
        /\ (past >= 0 /\ lastOp.op \in TickOps /\ ~gameOver)
              => severity = Min(500 + (past * 500) \div 30, 1000)
        /\ (past >= 30 /\ Len(market.marketIndexHistory) > 1) => severity = 1000

\* the tick of this step rolled a crash: its news gained a crash item
CrashRolled ==
    /\ Ticked
    /\ Cardinality(Crashes(market'.news)) = Cardinality(Crashes(market.news)) + 1

\* C22: the peak index is recorded once per run: the first tick whose crash roll
\* fires captures the index before that tick, and no later tick, manual or fired
\* by the timer, with or without a crash roll, overwrites it.
C22_PeakRecordedOnce ==
    [][lastOp'.op \in TickOps
          => /\ crashEvents.peakIndex # 0 => crashEvents'.peakIndex = crashEvents.peakIndex
             /\ (crashEvents.peakIndex = 0 /\ CrashRolled)
                   => crashEvents'.peakIndex = market.marketIndex]_vars

\* the interval of the index draw of a stage, in thousandths
StageInterval(stage, severity) ==
    CASE stage = "early" -> <<-10, 30>>
      [] stage = "growth" -> <<-10, 50>>
      [] stage = "mania" -> <<-20, 80>>
      [] stage = "peak" -> <<-50, 50>>
      [] stage = "decline" -> <<-80, 20>>
      [] stage = "crash" -> <<0 - ((150 * severity) \div 1000), 10>>

\* max(100, index * (1 + r * volatilityFactor)) for r in thousandths
Applied(index, r, volatilityFactor) ==
    Max(1000, (index * (10000 + r * volatilityFactor)) \div 10000)

\* C23: every tick takes the index to max(100, index * (1 + r * volatilityFactor))
\* with r inside the interval of the tick's new stage (the crash interval scaled
\* by the new severity), and appends that value to the history; a draw at the
\* midpoint in the mania stage changes the index by exactly 0.03 * volatilityFactor.
C23_IndexUpdate ==
    [][Ticked
          => LET range == StageInterval(market'.bubbleStage, market'.crashSeverity)
                 vf == settings.volatilityFactor
                 new == market'.marketIndex
                 h == market'.marketIndexHistory
             IN  /\ Applied(market.marketIndex, range[1], vf) <= new
                 /\ new <= Applied(market.marketIndex, range[2], vf)
                 /\ new >= 1000
                 /\ h[Len(h)] = [date |-> market'.currentDate, price |-> new]
                 /\ IndexChange("mania", market'.crashSeverity, 50, vf) = 30 * vf
                 /\ NewIndex(market.marketIndex, IndexChange("mania", 500, 50, vf))
                       = Applied(market.marketIndex, 30, vf)]_vars

\* a tick into the mania stage drew the midpoint: the index rose by exactly
\* 0.03 * volatilityFactor
C23_Witness ==
    LET h == market.marketIndexHistory
    IN  /\ lastOp.op = "step"
        /\ market.bubbleStage = "mania"
        /\ Len(h) > 1
        /\ h[Len(h)].price = Applied(h[Len(h) - 1].price, 30, settings.volatilityFactor)
        /\ h[Len(h)].price > h[Len(h) - 1].price

\* the closures a tick of this step can have run with
TickClosures == IF lastOp'.op = "timerTick" THEN {i.cl : i \in intervals} ELSE {Closure}

\* C24: after a tick taken outside the crash stage every stock's price is at most
\* 1.5 times its peakPrice; a tick taken inside the crash stage, by hand or by
\* the timer, leaves max(0.1, price * (1 + change)), never cut back to the peak price.
C24_GrowthCap ==
    [][Ticked
          => \A id \in StockIds :
                LET info == InitialStocks[id]
                    new == stocks'[id].price
                IN  /\ market.bubbleStage # "crash" => new * 10 <= info.peakPrice * 15
                    /\ market.bubbleStage = "crash"
                          => \E cl \in TickClosures, tape \in Tapes :
                               new = Max(10, (stocks[id].price
                                        * (10000 + StockChange(info, stocks[id].price, cl, tape)))
                                       \div 10000)]_vars

\* C25: every tick, by hand or by the timer, appends one point to
\* marketIndexHistory and one to each stock's priceHistory, both dated with the
\* market's date after the tick; each stock's history dates increase strictly.
C25_HistoryPoints ==
    [][Ticked
          => LET h == market'.marketIndexHistory
             IN  /\ h[Len(h)].date = market'.currentDate
                 /\ \A id \in StockIds :
                       LET old == stocks[id].priceHistory
                           new == stocks'[id].priceHistory
                       IN  /\ Len(new) = Len(old) + 1
                           /\ new[Len(new)].date = market'.currentDate
                           /\ \A i \in 1..(Len(new) - 1) : new[i].date < new[i + 1].date]_vars

\* C26: between operations the index history and every stock's price history
\* hold the same number of points.
C26_HistoriesInStep ==
    \A id \in StockIds :
        Len(stocks[id].priceHistory) = Len(market.marketIndexHistory)

\* C27: the market does not crash before it has warned: in the crash stage the
\* warning has been shown and the crash probability is at least 0.3, and the tick
\* that takes the stage to crash is dated on or after the warning date of the
\* schedule it ran with.
C27_WarnedBeforeCrash ==
    [][/\ market'.bubbleStage = "crash"
          => market'.crashWarningShown /\ market'.crashProbability >= 30
       /\ (Ticked /\ market.bubbleStage # "crash" /\ market'.bubbleStage = "crash")
          => \E cl \in TickClosures : market'.currentDate >= cl.crashEvents.warningDate]_vars

\* the order of the stages
StageRank(stage) ==
    CASE stage = "early" -> 1
      [] stage = "growth" -> 2
      [] stage = "mania" -> 3
      [] stage = "peak" -> 4
      [] stage = "decline" -> 5
      [] stage = "crash" -> 6

\* C28: between resets the stage never moves backwards in the order early,
\* growth, mania, peak, decline, crash, whatever the start year and month, the
\* time scale and the crash schedule, also on ticks dated on or after the crash
\* date, where the ladder leaves the stage as it is.
C28_StageMonotone ==
    [][lastOp'.op # "reset"
          => StageRank(market'.bubbleStage) >= StageRank(market.bubbleStage)]_vars

\* a tick dated on or after the crash date rolled no crash and kept a stage the
\* ladder had assigned before
C28_Witness ==
    /\ lastOp.op \in TickOps
    /\ market.bubbleStage \in {"growth", "mania", "peak", "decline"}
    /\ market.currentDate >= crashEvents.crashDate
    /\ market.crashWarningShown

\* C29: resetSimulation leaves the cash and the portfolio as they are (and the
\* settings and the speed); it resets the market, the stocks, the crash schedule
\* and the running and game-over flags only.
C29_ResetKeepsPortfolio ==
    [][lastOp'.op = "reset"
          => /\ cash' = cash
             /\ portfolio' = portfolio
             /\ settings' = settings
             /\ simulationSpeed' = simulationSpeed
             /\ market' = FreshMarket(settings)
             /\ ~isRunning' /\ ~gameOver']_vars

\* a session that held shares and had spent cash was reset after at least one tick
C29_Witness ==
    /\ lastOp.op = "reset"
    /\ lastOp.n >= 2
    /\ portfolio # EmptyPortfolio
    /\ cash < InitialCash

\* cash plus the holdings at the current prices
TotalAssets(c, p, st) ==
    c + Held(p, "a") * st["a"].price + Held(p, "b") * st["b"].price

\* C30: at fixed prices a buy or a sell, also one issued against a snapshot of
\* cash and portfolio that an earlier call has already outdated, leaves
\* cash + sum of price * shares held unchanged.
C30_TradingConservesAssets ==
    [][lastOp'.op \in {"buy", "sell"}
          => TotalAssets(cash', portfolio', stocks') = TotalAssets(cash, portfolio, stocks)]_vars

====
